---- MODULE Spec2Model ----
(***************************************************************************)
(* Neural Style Transfer notebook (src/nst.ipynb): the loss functions of   *)
(* cell 9 and the optimisation loop of cell 11, as a state machine.        *)
(*                                                                         *)
(* Numbers.  Pixels live on an integer grid (one unit = one learning-rate  *)
(* step); activations are integers; every mean, weight and gradient is an  *)
(* exact rational [n, d] in lowest terms, so "/ (c*h*w)" and "beta = 0.01" *)
(* keep their meaning.  Floating-point rounding is not modelled.           *)
(*                                                                         *)
(* Library code.  torchvision's VGG19 layers, autograd and torch.optim.Adam*)
(* are not part of the repository.  The network is a three-layer stand-in  *)
(* (1x1 convolution, ReLU, 1x1 convolution) driven by the repository's own *)
(* VGG.forward; backward() is reverse-mode differentiation of the loop's   *)
(* loss through that network; Adam is its sign-quantised form on the grid. *)
(***************************************************************************)
EXTENDS Integers, Sequences, FiniteSets, TLC

\* ------------------------------------------------------------------ bounds
MaxSteps == 4
MaxInterval == 3
MaxPix == 1
MaxVal == 1

\* ------------------------------------------------------- exact arithmetic
Abs(x) == IF x < 0 THEN -x ELSE x

Sign(x) == IF x > 0 THEN 1 ELSE IF x < 0 THEN -1 ELSE 0

\* Operands are bound once (v \in {e}) before use, so that an operand is evaluated a
\* single time however often the body reads it.
RECURSIVE GCD(_, _)
GCD(a, b) == IF b = 0 THEN a ELSE CHOOSE r \in {GCD(b, m) : m \in {a % b}} : TRUE

\* n/d in lowest terms, d > 0
Rat(n, d) ==
    CHOOSE r \in
      { [n |-> (IF dd < 0 THEN -1 ELSE 1) * (nn \div g),
         d |-> (IF dd < 0 THEN -1 ELSE 1) * (dd \div g)]
        : nn \in {n}, dd \in {d}, g \in {GCD(Abs(n), Abs(d))} } : TRUE

RZero == [n |-> 0, d |-> 1]

RInt(i) == [n |-> i, d |-> 1]

RAdd(x, y) ==
    CHOOSE r \in {Rat(a.n * b.d + b.n * a.d, a.d * b.d) : a \in {x}, b \in {y}} : TRUE

RSub(x, y) ==
    CHOOSE r \in {Rat(a.n * b.d - b.n * a.d, a.d * b.d) : a \in {x}, b \in {y}} : TRUE

RMul(x, y) == CHOOSE r \in {Rat(a.n * b.n, a.d * b.d) : a \in {x}, b \in {y}} : TRUE

RDivInt(x, k) == CHOOSE r \in {Rat(a.n, a.d * k) : a \in {x}} : TRUE

RSign(x) == Sign(x.n)

RECURSIVE SumN(_, _)
SumN(f, n) == IF n = 0 THEN 0 ELSE f[n] + SumN(f, n - 1)

RECURSIVE RSumN(_, _)
RSumN(f, n) == IF n = 0 THEN RZero ELSE RAdd(f[n], RSumN(f, n - 1))

\* <<f[1], ..., f[n]>> as an explicit tuple
RECURSIVE Tuple(_, _)
Tuple(f, n) == IF n = 0 THEN <<>> ELSE Append(Tuple(f, n - 1), f[n])

\* ---------------------------------------------------------------- tensors
\* A tensor is [size |-> <<batch, channels, height, width>>, data |-> row-major values].
Tensor(size, data) == [size |-> size, data |-> data]

Numel(t) == t.size[1] * t.size[2] * t.size[3] * t.size[4]

\* tensor.view(rows, cols): the same storage read as a rows x cols matrix
View(t, rows, cols) ==
    [r \in 1..rows |-> [k \in 1..cols |-> t.data[(r - 1) * cols + k]]]

\* M.t()
Transpose(M, rows, cols) == [k \in 1..cols |-> [r \in 1..rows |-> M[r][k]]]

\* torch.mm(M, N) for M : rows x inner, N : inner x cols
Mm(M, N, rows, inner, cols) ==
    [i \in 1..rows |-> [j \in 1..cols |->
        SumN([k \in 1..inner |-> M[i][k] * N[k][j]], inner)]]

\* torch.mean((X - Y) ** 2) over two integer matrices of the same shape
MeanSqDiff(X, Y, rows, cols) ==
    Rat(SumN([i \in 1..rows |->
                SumN([j \in 1..cols |-> (X[i][j] - Y[i][j]) * (X[i][j] - Y[i][j])], cols)],
             rows),
        rows * cols)

\* ---------------------------------------------------- cell 9: loss functions
content_loss_sign_bug(generated_feature, content_feature) ==
    Rat(SumN([k \in 1..Numel(generated_feature) |->
                (generated_feature.data[k] + content_feature.data[k])
                  * (generated_feature.data[k] + content_feature.data[k])],
             Numel(generated_feature)),
        Numel(generated_feature))

content_loss(generated_feature, content_feature) ==
    Rat(SumN([k \in 1..Numel(generated_feature) |->
                (generated_feature.data[k] - content_feature.data[k])
                  * (generated_feature.data[k] - content_feature.data[k])],
             Numel(generated_feature)),
        Numel(generated_feature))

\* the view taken with its two extents swapped: a (h*w) x (h*w) result
gram_matrix_swapped_view(feature) ==
    LET n_channels == feature.size[2]
        height == feature.size[3]
        width == feature.size[4]
        F == View(feature, height * width, n_channels)
        G == Mm(F, Transpose(F, height * width, n_channels),
                height * width, n_channels, height * width)
    IN  [i \in 1..(height * width) |-> [j \in 1..(height * width) |->
            Rat(G[i][j], n_channels * height * width)]]

gram_matrix(feature) ==
    LET n_channels == feature.size[2]
        height == feature.size[3]
        width == feature.size[4]
        F == View(feature, n_channels, height * width)
        G == Mm(F, Transpose(F, n_channels, height * width),
                n_channels, height * width, n_channels)
    IN  [i \in 1..n_channels |-> [j \in 1..n_channels |->
            Rat(G[i][j], n_channels * height * width)]]

style_loss(generated_feature, style_feature) ==
    LET G == gram_matrix(generated_feature)
        A == gram_matrix(style_feature)
        c == Len(G)
        D == [i \in 1..c |-> [j \in 1..c |-> RSub(G[i][j], A[i][j])]]
    IN  RDivInt(RSumN([i \in 1..c |->
                        RSumN([j \in 1..c |-> RMul(D[i][j], D[i][j])], c)], c),
                c * c)

\* ------------------------------------- cell 11: the loop's per-layer terms
\* c_loss += torch.mean((gen_feature - orig_feature)**2)
loop_content_term(gen_feature, orig_feature) ==
    Rat(SumN([k \in 1..Numel(gen_feature) |->
                (gen_feature.data[k] - orig_feature.data[k])
                  * (gen_feature.data[k] - orig_feature.data[k])],
             Numel(gen_feature)),
        Numel(gen_feature))

\* G = gen.view(c, h*w).mm(gen.view(c, h*w).t()): no division by c*h*w
loop_gram(feature, channel, height, width) ==
    LET F == View(feature, channel, height * width)
        G == Mm(F, Transpose(F, channel, height * width), channel, height * width, channel)
    IN  Tuple([i \in 1..channel |-> Tuple(G[i], channel)], channel)

\* s_loss += torch.mean((G - A)**2), the shape taken from gen_feature
loop_style_term(gen_feature, style_feature) ==
    LET channel == gen_feature.size[2]
        height == gen_feature.size[3]
        width == gen_feature.size[4]
    IN  CHOOSE r \in
          { MeanSqDiff(G, A, channel, channel)
            : G \in {loop_gram(gen_feature, channel, height, width)},
              A \in {loop_gram(style_feature, channel, height, width)} } : TRUE

\* total_loss = alpha * c_loss + beta * s_loss
TotalLoss(a, c, b, s) == RAdd(RMul(a, c), RMul(b, s))

\* ------------------------------------------------ cell 3: feature extractor
\* self.chosen_features, as layer numbers
chosen_features == {0, 2}

\* self.model: the frozen layers (stand-in for vgg19.features[:29])
PretrainedLayers ==
    << [kind |-> "conv", w |-> << <<1>>, <<-1>> >>, b |-> <<0, 1>>],
       [kind |-> "relu", w |-> <<>>, b |-> <<>>],
       [kind |-> "conv", w |-> << <<1, 1>>, <<1, -1>> >>, b |-> <<0, 0>>] >>

\* x = layer(x)   (the argument is evaluated once, as the bound x)
LayerApply(layer, input) ==
    CHOOSE y \in
      { LET c == x.size[2]
            hw == x.size[3] * x.size[4]
            oc == Len(layer.w)
        IN  IF layer.kind = "relu"
            THEN Tensor(x.size,
                        Tuple([k \in 1..Numel(x) |-> IF x.data[k] > 0 THEN x.data[k] ELSE 0],
                              Numel(x)))
            ELSE Tensor(<<x.size[1], oc, x.size[3], x.size[4]>>,
                        Tuple([k \in 1..(oc * hw) |->
                                 LET o == ((k - 1) \div hw) + 1
                                     p == ((k - 1) % hw) + 1
                                 IN  layer.b[o]
                                     + SumN([i \in 1..c |->
                                               layer.w[o][i] * View(x, c, hw)[i][p]], c)],
                              oc * hw))
        : x \in {input} } : TRUE

\* the body of VGG.forward's loop, from layer number layer_num on
RECURSIVE ForwardFrom(_, _, _, _)
ForwardFrom(net, layer_num, x, features) ==
    IF layer_num >= Len(net)
    THEN features
    ELSE CHOOSE r \in
           { ForwardFrom(net, layer_num + 1, y,
                         IF layer_num \in chosen_features THEN Append(features, y)
                         ELSE features)
             : y \in {LayerApply(net[layer_num + 1], x)} } : TRUE

\* model(x)
forward(net, x) == ForwardFrom(net, 0, x, <<>>)

\* ------------------------------------------------- total_loss.backward()
\* the input of layer i (1-based); ActAt(net, x, Len(net) + 1) is the output
RECURSIVE ActAt(_, _, _)
ActAt(net, x, i) == IF i = 1 THEN x ELSE LayerApply(net[i - 1], ActAt(net, x, i - 1))

\* position in the feature list of the activation produced by layer number ln
FeaturePos(ln) == Cardinality({c \in chosen_features : c <= ln})

\* d total_loss / d gen_feature for one zip tuple (flat, rational):
\* alpha * 2 (F - O) / n  +  beta * 4 (G - A) F / channel^2
FeatureGrad(gen_feature, orig_feature, style_feature, a, b) ==
    CHOOSE r \in
      { LET channel == gen.size[2]
            hw == gen.size[3] * gen.size[4]
            n == Numel(gen)
        IN  Tuple([k \in 1..n |->
                LET i == ((k - 1) \div hw) + 1
                    p == ((k - 1) % hw) + 1
                    dc == Rat(2 * (gen.data[k] - orig.data[k]), n)
                    ds == Rat(4 * SumN([j \in 1..channel |->
                                          (G[i][j] - A[i][j]) * View(gen, channel, hw)[j][p]],
                                       channel),
                              channel * channel)
                IN  RAdd(RMul(a, dc), RMul(b, ds))], n)
        : gen \in {gen_feature}, orig \in {orig_feature},
          G \in {loop_gram(gen_feature, gen_feature.size[2], gen_feature.size[3],
                           gen_feature.size[4])},
          A \in {loop_gram(style_feature, gen_feature.size[2], gen_feature.size[3],
                           gen_feature.size[4])} } : TRUE

\* gradient w.r.t. a layer's input, given the gradient w.r.t. its output
LayerBackward(layer, input, delta) ==
    CHOOSE r \in
      { LET c == x.size[2]
            hw == x.size[3] * x.size[4]
            oc == Len(layer.w)
        IN  IF layer.kind = "relu"
            THEN Tuple([k \in 1..Numel(x) |-> IF x.data[k] > 0 THEN d[k] ELSE RZero],
                       Numel(x))
            ELSE Tuple([k \in 1..(c * hw) |->
                          LET i == ((k - 1) \div hw) + 1
                              p == ((k - 1) % hw) + 1
                          IN  RSumN([o \in 1..oc |->
                                       RMul(RInt(layer.w[o][i]), d[(o - 1) * hw + p])], oc)],
                       c * hw)
        : x \in {input}, d \in {delta} } : TRUE

\* the gradient of total_loss w.r.t. the leaf x, through the recorded graph
Autograd(net, x, gen_features, orig_features, style_features, a, b) ==
    LET L == Len(net)
        own(i) == \* the loss's direct dependence on the activation a[i]
            IF (i - 2) \in chosen_features
            THEN FeatureGrad(gen_features[FeaturePos(i - 2)],
                             orig_features[FeaturePos(i - 2)],
                             style_features[FeaturePos(i - 2)], a, b)
            ELSE Tuple([k \in 1..Numel(ActAt(net, x, i)) |-> RZero],
                       Numel(ActAt(net, x, i)))
        D[i \in 1..(L + 1)] ==
            IF i = L + 1 THEN own(i)
            ELSE CHOOSE r \in
                   { Tuple([k \in 1..Len(through) |-> RAdd(through[k], direct[k])],
                           Len(through))
                     : through \in {LayerBackward(net[i], ActAt(net, x, i), D[i + 1])},
                       direct \in {own(i)} } : TRUE
    IN  D[1]

\* ------------------------------------------------------ optimizer.step()
\* Adam on the grid: the moments accumulate gradient signs, and every element
\* moves one unit against the sign of its first moment (no move when it is 0).
AdamState0(n) ==
    [step |-> 0, exp_avg |-> [k \in 1..n |-> 0], exp_avg_sq |-> [k \in 1..n |-> 0]]

AdamMoments(st, g) ==
    [step |-> st.step + 1,
     exp_avg |-> [k \in 1..Len(g) |-> st.exp_avg[k] + RSign(g[k])],
     exp_avg_sq |-> [k \in 1..Len(g) |-> st.exp_avg_sq[k] + RSign(g[k]) * RSign(g[k])]]

AdamUpdate(p, st1) ==
    Tensor(p.size, [k \in 1..Numel(p) |-> p.data[k] - Sign(st1.exp_avg[k])])

\* ------------------------------------------------------- report (249-251)
\* f"{x:.4f}": <<whole part, four decimals>>, round half to even, for x >= 0
Fmt4(x) ==
    LET q == x.n \div x.d
        t == (x.n % x.d) * 10000
        f == t \div x.d
        r == t % x.d
        up == (2 * r > x.d) \/ (2 * r = x.d /\ f % 2 = 1)
        f1 == IF up THEN f + 1 ELSE f
    IN  IF f1 = 10000 THEN <<q + 1, 0>> ELSE <<q, f1>>

\* save_image: clamp every value to the displayable range
ToPng(t) ==
    Tensor(t.size, [k \in 1..Numel(t) |->
        IF t.data[k] < 0 THEN 0 ELSE IF t.data[k] > MaxPix THEN MaxPix ELSE t.data[k]])

\* ------------------------------------------------------------------ state
VARIABLES
    pc,                     \* position in cell 11
    total_steps, report_every, alpha, beta,   \* configuration (lines 215-218, 249)
    store,                  \* tensor storages: "input", "style", "generated"
    vgg,                    \* the feature extractor's layers (model)
    range_next, step,       \* range(total_steps) and its loop variable
    generated_features, original_img_features, style_img_features,
    zip_pos,                \* next tuple of the zip
    c_loss, s_loss, total_loss,
    grad,                   \* generated.grad
    optimizer,              \* Adam: its parameter and its state
    printed, saved,         \* stdout records and checkpoint files, in order
    hist,                   \* history: hist[n + 1] is the candidate after n updates
    feat_a, feat_b, applied, closs_out, sloss_out, gram_out   \* loss-function harness

loopvars == <<pc, total_steps, report_every, alpha, beta, store, vgg, range_next, step,
              generated_features, original_img_features, style_img_features, zip_pos,
              c_loss, s_loss, total_loss, grad, optimizer, printed, saved, hist>>

lossvars == <<feat_a, feat_b, applied, closs_out, sloss_out, gram_out>>

vars == <<loopvars, lossvars>>

\* image tensors are 1 x 1 x 1 x 2 (batch, channels, height, width)
ImgSize == <<1, 1, 1, 2>>

Images == {Tensor(ImgSize, <<p, q>>) : p \in 0..MaxPix, q \in 0..MaxPix}

Alphas == {RZero, RInt(1)}

Betas == {RZero, Rat(1, 100)}

\* generated = original_img.clone(): a storage of its own
generated_alias == "input"

generated_ref == "generated"

original_img == store["input"]

style_img == store["style"]

generated == store[generated_ref]

ZeroGrad == Tuple([k \in 1..Numel(Tensor(ImgSize, <<>>)) |-> RZero], Numel(Tensor(ImgSize, <<>>)))

\* the statements of the loop body, in program order
LoopBodyReportBeforeUpdate ==
    <<"extract", "reset", "layers", "total", "zero_grad", "backward", "report", "opt_step">>

LoopBody ==
    <<"extract", "reset", "layers", "total", "zero_grad", "backward", "opt_step", "report">>

After(p) ==
    LET i == CHOOSE k \in 1..Len(LoopBody) : LoopBody[k] = p
    IN  IF i = Len(LoopBody) THEN "loop_head" ELSE LoopBody[i + 1]

LossHarnessIdle ==
    /\ feat_a = Tensor(<<1, 1, 1, 1>>, <<0>>)
    /\ feat_b = Tensor(<<1, 1, 1, 1>>, <<0>>)
    /\ applied = {}
    /\ closs_out = RZero
    /\ sloss_out = RZero
    /\ gram_out = <<>>

LoopIdle(content, style) ==
    /\ pc = "Initialized"
    /\ store = [input |-> content, style |-> style, generated |-> content]
    /\ vgg = PretrainedLayers
    /\ range_next = 0
    /\ step = 0
    /\ generated_features = <<>>
    /\ original_img_features = <<>>
    /\ style_img_features = <<>>
    /\ zip_pos = 1
    /\ c_loss = RZero
    /\ s_loss = RZero
    /\ total_loss = RZero
    /\ grad = ZeroGrad
    /\ optimizer = [param |-> "", state |-> AdamState0(0)]
    /\ printed = <<>>
    /\ saved = <<>>
    /\ hist = <<content>>

\* after cells 1-9: images loaded, model built, generated cloned
Init ==
    /\ total_steps \in 1..MaxSteps
    /\ report_every \in 1..MaxInterval
    /\ alpha \in Alphas
    /\ beta \in Betas
    /\ \E content \in Images, style \in Images : LoopIdle(content, style)
    /\ LossHarnessIdle

\* optimizer = optim.Adam([generated], lr=learning_rate)
CreateOptimizer ==
    /\ pc = "Initialized"
    /\ optimizer' = [param |-> generated_ref, state |-> AdamState0(Numel(generated))]
    /\ pc' = "loop_head"
    /\ UNCHANGED lossvars
    /\ UNCHANGED <<total_steps, report_every, alpha, beta, store, vgg, range_next, step,
                   generated_features, original_img_features, style_img_features, zip_pos,
                   c_loss, s_loss, total_loss, grad, printed, saved, hist>>

StopsWhenConverged == range_next < total_steps /\ (range_next = 0 \/ total_loss # RZero)

\* range(total_steps) has a next element
LoopContinues == range_next < total_steps

\* for step in range(total_steps):
LoopHead ==
    /\ pc = "loop_head"
    /\ IF LoopContinues
       THEN /\ step' = range_next
            /\ range_next' = range_next + 1
            /\ pc' = LoopBody[1]
       ELSE /\ pc' = "Completed"
            /\ UNCHANGED <<step, range_next>>
    /\ UNCHANGED lossvars
    /\ UNCHANGED <<total_steps, report_every, alpha, beta, store, vgg,
                   generated_features, original_img_features, style_img_features, zip_pos,
                   c_loss, s_loss, total_loss, grad, optimizer, printed, saved, hist>>

\* generated_features = model(generated); ... model(original_img); ... model(style_img)
Extract ==
    /\ pc = "extract"
    /\ generated_features' = forward(vgg, generated)
    /\ original_img_features' = forward(vgg, original_img)
    /\ style_img_features' = forward(vgg, style_img)
    /\ pc' = After("extract")
    /\ UNCHANGED lossvars
    /\ UNCHANGED <<total_steps, report_every, alpha, beta, store, vgg, range_next, step,
                   zip_pos, c_loss, s_loss, total_loss, grad, optimizer, printed, saved, hist>>

ResetLossesSkipped ==
    /\ pc = "reset"
    /\ zip_pos' = 1
    /\ pc' = After("reset")
    /\ UNCHANGED lossvars
    /\ UNCHANGED <<total_steps, report_every, alpha, beta, store, vgg, range_next, step,
                   generated_features, original_img_features, style_img_features,
                   c_loss, s_loss, total_loss, grad, optimizer, printed, saved, hist>>

\* c_loss = 0; s_loss = 0 (and the zip starts at its first tuple)
ResetLosses ==
    /\ pc = "reset"
    /\ c_loss' = RZero
    /\ s_loss' = RZero
    /\ zip_pos' = 1
    /\ pc' = After("reset")
    /\ UNCHANGED lossvars
    /\ UNCHANGED <<total_steps, report_every, alpha, beta, store, vgg, range_next, step,
                   generated_features, original_img_features, style_img_features,
                   total_loss, grad, optimizer, printed, saved, hist>>

\* zip(...) stops with its shortest argument
ZipLen ==
    LET a == Len(generated_features)
        b == Len(original_img_features)
        c == Len(style_img_features)
    IN  IF a <= b /\ a <= c THEN a ELSE IF b <= c THEN b ELSE c

\* one pass of the for over the zip (lines 230-242)
LayerStep ==
    /\ pc = "layers"
    /\ zip_pos <= ZipLen
    /\ c_loss' = RAdd(c_loss, loop_content_term(generated_features[zip_pos],
                                                original_img_features[zip_pos]))
    /\ s_loss' = RAdd(s_loss, loop_style_term(generated_features[zip_pos],
                                              style_img_features[zip_pos]))
    /\ zip_pos' = zip_pos + 1
    /\ UNCHANGED lossvars
    /\ UNCHANGED <<pc, total_steps, report_every, alpha, beta, store, vgg, range_next, step,
                   generated_features, original_img_features, style_img_features,
                   total_loss, grad, optimizer, printed, saved, hist>>

\* the zip is exhausted
LayersDone ==
    /\ pc = "layers"
    /\ zip_pos > ZipLen
    /\ pc' = After("layers")
    /\ UNCHANGED lossvars
    /\ UNCHANGED <<total_steps, report_every, alpha, beta, store, vgg, range_next, step,
                   generated_features, original_img_features, style_img_features, zip_pos,
                   c_loss, s_loss, total_loss, grad, optimizer, printed, saved, hist>>

\* total_loss = alpha * c_loss + beta * s_loss
ComputeTotal ==
    /\ pc = "total"
    /\ total_loss' = TotalLoss(alpha, c_loss, beta, s_loss)
    /\ pc' = After("total")
    /\ UNCHANGED lossvars
    /\ UNCHANGED <<total_steps, report_every, alpha, beta, store, vgg, range_next, step,
                   generated_features, original_img_features, style_img_features, zip_pos,
                   c_loss, s_loss, grad, optimizer, printed, saved, hist>>

ZeroGradientKeepsGrad ==
    /\ pc = "zero_grad"
    /\ pc' = After("zero_grad")
    /\ UNCHANGED lossvars
    /\ UNCHANGED <<total_steps, report_every, alpha, beta, store, vgg, range_next, step,
                   generated_features, original_img_features, style_img_features, zip_pos,
                   c_loss, s_loss, total_loss, grad, optimizer, printed, saved, hist>>

\* optimizer.zero_grad()
ZeroGradient ==
    /\ pc = "zero_grad"
    /\ grad' = ZeroGrad
    /\ pc' = After("zero_grad")
    /\ UNCHANGED lossvars
    /\ UNCHANGED <<total_steps, report_every, alpha, beta, store, vgg, range_next, step,
                   generated_features, original_img_features, style_img_features, zip_pos,
                   c_loss, s_loss, total_loss, optimizer, printed, saved, hist>>

\* total_loss.backward(): the gradient is added to generated.grad
Backward ==
    /\ pc = "backward"
    /\ \E g \in {Autograd(vgg, generated, generated_features, original_img_features,
                            style_img_features, alpha, beta)} :
          grad' = Tuple([k \in 1..Len(grad) |-> RAdd(grad[k], g[k])], Len(grad))
    /\ pc' = After("backward")
    /\ UNCHANGED lossvars
    /\ UNCHANGED <<total_steps, report_every, alpha, beta, store, vgg, range_next, step,
                   generated_features, original_img_features, style_img_features, zip_pos,
                   c_loss, s_loss, total_loss, optimizer, printed, saved, hist>>

\* optimizer.step(): updates the optimizer's parameter in place
OptimizerStep ==
    /\ pc = "opt_step"
    /\ \E st1 \in {AdamMoments(optimizer.state, grad)} :
          \E new \in {AdamUpdate(store[optimizer.param], st1)} :
             /\ optimizer' = [optimizer EXCEPT !.state = st1]
             /\ store' = [store EXCEPT ![optimizer.param] = new]
             /\ hist' = Append(hist, new)
    /\ pc' = After("opt_step")
    /\ UNCHANGED lossvars
    /\ UNCHANGED <<total_steps, report_every, alpha, beta, vgg, range_next, step,
                   generated_features, original_img_features, style_img_features, zip_pos,
                   c_loss, s_loss, total_loss, grad, printed, saved>>

ReportsAfterEveryInterval == (step + 1) % report_every = 0

\* if step % 200 == 0
ShouldReport == step % report_every = 0

\* the print of line 250
ProgressRecord ==
    [step |-> step, total_steps |-> total_steps, c_loss |-> Fmt4(c_loss),
     s_loss |-> Fmt4(s_loss), total_loss |-> Fmt4(total_loss)]

ReportSkip ==
    /\ pc = "report"
    /\ ~ShouldReport
    /\ pc' = After("report")
    /\ UNCHANGED lossvars
    /\ UNCHANGED <<total_steps, report_every, alpha, beta, store, vgg, range_next, step,
                   generated_features, original_img_features, style_img_features, zip_pos,
                   c_loss, s_loss, total_loss, grad, optimizer, printed, saved, hist>>

\* print, then save_image writes generated_<step>.png
ReportSaved ==
    /\ pc = "report"
    /\ ShouldReport
    /\ printed' = Append(printed, ProgressRecord)
    /\ saved' = Append(saved, [step |-> step, image |-> ToPng(generated)])
    /\ pc' = After("report")
    /\ UNCHANGED lossvars
    /\ UNCHANGED <<total_steps, report_every, alpha, beta, store, vgg, range_next, step,
                   generated_features, original_img_features, style_img_features, zip_pos,
                   c_loss, s_loss, total_loss, grad, optimizer, hist>>

\* print, then save_image raises (I/O error): nothing catches it
ReportSaveRaises ==
    /\ pc = "report"
    /\ ShouldReport
    /\ printed' = Append(printed, ProgressRecord)
    /\ pc' = "Raised"
    /\ UNCHANGED lossvars
    /\ UNCHANGED <<total_steps, report_every, alpha, beta, store, vgg, range_next, step,
                   generated_features, original_img_features, style_img_features, zip_pos,
                   c_loss, s_loss, total_loss, grad, optimizer, saved, hist>>

Next ==
    \/ CreateOptimizer
    \/ LoopHead
    \/ Extract
    \/ ResetLosses
    \/ LayerStep
    \/ LayersDone
    \/ ComputeTotal
    \/ ZeroGradient
    \/ Backward
    \/ OptimizerStep
    \/ ReportSkip
    \/ ReportSaved
    \/ ReportSaveRaises

Spec == Init /\ [][Next]_vars

\* the notebook cell runs to its end or to an uncaught exception
FairSpec == Spec /\ WF_vars(Next)

\* ------------------------------------- the loss functions on their own
FeatSizes ==
    {<<1, 1, 1, 1>>, <<1, 1, 1, 2>>, <<1, 2, 1, 1>>, <<1, 2, 1, 2>>, <<1, 2, 2, 1>>,
     <<1, 3, 1, 1>>}

FeatVals == (-MaxVal)..MaxVal

Features ==
    UNION {{Tensor(sz, d) : d \in [1..(sz[2] * sz[3] * sz[4]) -> FeatVals]} : sz \in FeatSizes}

\* same-shaped partners of a feature: itself, zero, shifted, reversed
Partners(f) ==
    {f,
     Tensor(f.size, [k \in 1..Numel(f) |-> 0]),
     Tensor(f.size, [k \in 1..Numel(f) |-> f.data[k] + 1]),
     Tensor(f.size, [k \in 1..Numel(f) |-> f.data[Numel(f) + 1 - k]])}

LossInit ==
    /\ total_steps = 1
    /\ report_every = 1
    /\ alpha = RInt(1)
    /\ beta = Rat(1, 100)
    /\ LoopIdle(Tensor(ImgSize, <<0, 0>>), Tensor(ImgSize, <<0, 0>>))
    /\ feat_a \in Features
    /\ feat_b \in Partners(feat_a)
    /\ applied = {}
    /\ closs_out = RZero
    /\ sloss_out = RZero
    /\ gram_out = <<>>

ApplyContentLoss ==
    /\ "content_loss" \notin applied
    /\ closs_out' = content_loss(feat_a, feat_b)
    /\ applied' = applied \cup {"content_loss"}
    /\ UNCHANGED <<feat_a, feat_b, sloss_out, gram_out>>
    /\ UNCHANGED loopvars

ApplyStyleLoss ==
    /\ "style_loss" \notin applied
    /\ sloss_out' = style_loss(feat_a, feat_b)
    /\ applied' = applied \cup {"style_loss"}
    /\ UNCHANGED <<feat_a, feat_b, closs_out, gram_out>>
    /\ UNCHANGED loopvars

ApplyGramMatrix ==
    /\ "gram_matrix" \notin applied
    /\ gram_out' = gram_matrix(feat_a)
    /\ applied' = applied \cup {"gram_matrix"}
    /\ UNCHANGED <<feat_a, feat_b, closs_out, sloss_out>>
    /\ UNCHANGED loopvars

LossNext ==
    \/ ApplyContentLoss
    \/ ApplyStyleLoss
    \/ ApplyGramMatrix

LossSpec == LossInit /\ [][LossNext]_vars

\* ================================================================= claims
\* the loop's two sums and total for a candidate x, recomputed from scratch
LossesOf(x) ==
    LET gen == forward(vgg, x)
        orig == forward(vgg, original_img)
        sty == forward(vgg, style_img)
        n == Len(gen)
        c == RSumN([l \in 1..n |-> loop_content_term(gen[l], orig[l])], n)
        s == RSumN([l \in 1..n |-> loop_style_term(gen[l], sty[l])], n)
    IN  [c_loss |-> c, s_loss |-> s, total_loss |-> RAdd(RMul(alpha, c), RMul(beta, s))]

\* the positions of an iteration at which total_loss has been computed
TotalKnown == pc \in {"zero_grad", "backward", "opt_step", "report"}

\* C1 (as stated): a run that reaches Completed has printed floor(total_steps / R) + 1
\* progress records.
C1_FloorPlusOneRecords ==
    pc = "Completed" => Len(printed) = (total_steps \div report_every) + 1

\* C1 (amended): a run that reaches Completed has printed one record for each of the
\* steps 0, R, 2R, ... below total_steps, floor((total_steps - 1) / R) + 1 in all
\* (50 for 10000 and 200), and Completed, once entered, is never left.
C1_RecordCount ==
    /\ [](pc = "Completed" =>
            /\ Len(printed) = ((total_steps - 1) \div report_every) + 1
            /\ \A i \in 1..Len(printed) : printed[i].step = (i - 1) * report_every)
    /\ [][pc = "Completed" => pc' = "Completed"]_vars

C1_Witness ==
    /\ pc = "Completed"
    /\ total_steps = 4
    /\ report_every = 2
    /\ Len(printed) = 2

\* C2: a failing checkpoint write never escapes the loop as an exception.
C2_WriteFailureIsolated == pc # "Raised"

\* C3: once total_loss is computed, c_loss and s_loss are the sums of this iteration's
\* per-layer terms over all extraction layers (nothing left over from earlier
\* iterations), total_loss = alpha * c_loss + beta * s_loss, and a zero weight removes
\* its sum from total_loss.
C3_TotalIsWeightedSum ==
    TotalKnown =>
        LET n == Len(generated_features)
            cs == RSumN([l \in 1..n |-> loop_content_term(generated_features[l],
                                                          original_img_features[l])], n)
            ss == RSumN([l \in 1..n |-> loop_style_term(generated_features[l],
                                                        style_img_features[l])], n)
        IN  /\ n = Cardinality(chosen_features)
            /\ c_loss = cs
            /\ s_loss = ss
            /\ total_loss = RAdd(RMul(alpha, cs), RMul(beta, ss))
            /\ (alpha = RZero => total_loss = RMul(beta, ss))
            /\ (beta = RZero => total_loss = RMul(alpha, cs))

C3_Witness ==
    /\ pc = "report"
    /\ step >= 1
    /\ alpha = RInt(1)
    /\ beta = Rat(1, 100)
    /\ c_loss.n > 0
    /\ s_loss.n > 0

\* C4: after the layer loop, s_loss is the sum over the layers of
\* style_loss(candidate feature, style feature), Gram matrices divided by c*h*w.
C4_LoopAddsStyleLoss ==
    (pc = "total" \/ TotalKnown) =>
        s_loss = RSumN([l \in 1..Len(generated_features) |->
                          style_loss(generated_features[l], style_img_features[l])],
                       Len(generated_features))

\* C5: the run ends (Completed, or the uncaught exception), never makes more than
\* total_steps updates, and is Completed only after exactly total_steps of them,
\* whatever the losses are.
C5_EndsOnCountOnly ==
    /\ <>(pc \in {"Completed", "Raised"})
    /\ [](optimizer.state.step <= total_steps)
    /\ [](pc = "Completed" =>
            /\ optimizer.state.step = total_steps
            /\ Len(hist) = total_steps + 1
            /\ step = total_steps - 1)

\* a run that went on although its loss was already zero
C5_Witness ==
    /\ pc = "Completed"
    /\ total_steps >= 3
    /\ total_loss = RZero
    /\ optimizer.state.step = total_steps

\* C6: gram_matrix returns a channels x channels matrix, symmetric, whose (i, j) entry
\* is the inner product of channels i and j divided by channels * height * width.
C6_GramSquareSymmetric ==
    "gram_matrix" \in applied =>
        LET c == feat_a.size[2]
            hw == feat_a.size[3] * feat_a.size[4]
        IN  /\ Len(gram_out) = c
            /\ \A i \in 1..c : Len(gram_out[i]) = c
            /\ \A i, j \in 1..c :
                /\ gram_out[i][j] = gram_out[j][i]
                /\ gram_out[i][j] =
                     Rat(SumN([k \in 1..hw |-> feat_a.data[(i - 1) * hw + k]
                                                * feat_a.data[(j - 1) * hw + k]], hw),
                         c * hw)

C6_Witness ==
    /\ "gram_matrix" \in applied
    /\ feat_a.size = <<1, 2, 1, 2>>
    /\ gram_out[1][2].n # 0
    /\ gram_out[1][1] # gram_out[2][2]

\* C7: content_loss(x, x) = 0 and style_loss(x, x) = 0.
C7_SelfLossIsZero ==
    feat_b = feat_a =>
        /\ ("content_loss" \in applied => closs_out = RZero)
        /\ ("style_loss" \in applied => sloss_out = RZero)

C7_Witness ==
    /\ feat_b = feat_a
    /\ applied = {"content_loss", "style_loss", "gram_matrix"}
    /\ gram_out[1][1].n # 0

\* the moves of pc in program order
C8_ProgramOrder ==
    {<<"Initialized", "loop_head">>, <<"loop_head", "extract">>,
     <<"loop_head", "Completed">>, <<"extract", "reset">>, <<"reset", "layers">>,
     <<"layers", "total">>, <<"total", "zero_grad">>, <<"zero_grad", "backward">>,
     <<"backward", "opt_step">>, <<"opt_step", "report">>, <<"report", "loop_head">>,
     <<"report", "Raised">>}

\* C8: the phases run in the fixed order; up to the update of iteration k the optimizer
\* has made k updates and the features in use are those of the current candidate; the
\* gradient the update consumes is the gradient of this iteration's total_loss alone;
\* after the update the count is k + 1.
C8_PhaseOrderFreshGradient ==
    /\ [][pc' # pc => <<pc, pc'>> \in C8_ProgramOrder]_vars
    /\ [](pc \in {"reset", "layers", "total", "zero_grad", "backward", "opt_step"} =>
            /\ optimizer.state.step = step
            /\ generated = hist[step + 1]
            /\ generated_features = forward(vgg, generated))
    /\ [](pc = "opt_step" =>
            grad = Autograd(vgg, generated, forward(vgg, generated),
                            forward(vgg, original_img), forward(vgg, style_img),
                            alpha, beta))
    /\ [](pc = "report" => optimizer.state.step = step + 1)

C8_Witness ==
    /\ pc = "opt_step"
    /\ step >= 1
    /\ grad # ZeroGrad
    /\ hist[step + 1] # hist[step]
    /\ optimizer.state.exp_avg # <<0, 0>>

====
